---- MODULE Spec2Model ----
(***************************************************************************)
(* Model of src/Fonseca/Pregunta.py: a straight-line script that reads two *)
(* CSV resources, tags each table with a label column, converts the `time` *)
(* column to timestamps, keeps the rows of month 3, draws one density      *)
(* curve per table and shows the figure.                                   *)
(*                                                                         *)
(* The interpreter's position is `pc` (an index into Program); `status`    *)
(* says whether it is running, blocked in a call that waits for the        *)
(* environment (the HTTP fetch of read_csv, the window of plt.show), done  *)
(* or aborted by an unhandled exception.                                   *)
(*                                                                         *)
(* Numbers: `prom` is held in tenths of a degree (14.2 is 142).            *)
(* Strings that are parsed are sequences of one-character strings.         *)
(***************************************************************************)
EXTENDS Integers, Sequences, FiniteSets, TLC

\* Longest CSV body (in data rows) the environment serves.
MaxRows == 2

\* The literal month of lines 22 and 24.
TargetMonth == 3

VARIABLES
    pc,        \* index in Program of the statement being executed
    status,    \* "running" | "blocked" | "done" | "aborted"
    df,        \* df["2023"] is df_2023, df["2020"] is df_2020
    df_abril,  \* df_abril["2023"] is df_abril_2023, likewise 2020
    csv,       \* the rows each resource served, as read_csv parsed them
    figure,    \* the current matplotlib figure
    window,    \* "none" | "open" | "closed"
    err,       \* the unhandled exception, if any
    log        \* statements completed so far, in execution order

vars == <<pc, status, df, df_abril, csv, figure, window, err, log>>

Names == {"2023", "2020"}

----------------------------------------------------------------------------
(* Cells of a DataFrame column. *)

NaN == [kind |-> "nan"]
NaT == [kind |-> "NaT"]
Num(v) == [kind |-> "num", v |-> v]
Str(s) == [kind |-> "str", s |-> s]
Timestamp(y, m, d) == [kind |-> "ts", year |-> y, month |-> m, day |-> d]

----------------------------------------------------------------------------
(* The script, statement by statement.  `tbl` names the table a statement  *)
(* works on and `arg` is its literal argument.                             *)

Stmt(line, op, tbl, arg) == [line |-> line, op |-> op, tbl |-> tbl, arg |-> arg]

\* Mutation: the two curve labels exchanged.
Program_SwappedLabels ==
    << Stmt(6, "read_csv", "2023", "url1"),
       Stmt(8, "label", "2023", "2023"),
       Stmt(13, "read_csv", "2020", "url2"),
       Stmt(15, "label", "2020", "2020"),
       Stmt(18, "to_datetime", "2023", "time"),
       Stmt(19, "to_datetime", "2020", "time"),
       Stmt(22, "filter", "2023", TargetMonth),
       Stmt(24, "filter", "2020", TargetMonth),
       Stmt(33, "kdeplot", "2023", "2020"),
       Stmt(34, "kdeplot", "2020", "2023"),
       Stmt(35, "xlabel", "-", "Temperatura (C)"),
       Stmt(36, "ylabel", "-", "Densidad de probabilidad"),
       Stmt(37, "title", "-", "Promedio de la temperatura en la Region Metropolitana en marzo"),
       Stmt(38, "legend", "-", "-"),
       Stmt(39, "show", "-", "-") >>

\* Mutation: each table normalized before it is labelled.
Program_NormalizeFirst ==
    << Stmt(6, "read_csv", "2023", "url1"),
       Stmt(18, "to_datetime", "2023", "time"),
       Stmt(8, "label", "2023", "2023"),
       Stmt(13, "read_csv", "2020", "url2"),
       Stmt(19, "to_datetime", "2020", "time"),
       Stmt(15, "label", "2020", "2020"),
       Stmt(22, "filter", "2023", TargetMonth),
       Stmt(24, "filter", "2020", TargetMonth),
       Stmt(33, "kdeplot", "2023", "2023"),
       Stmt(34, "kdeplot", "2020", "2020"),
       Stmt(35, "xlabel", "-", "Temperatura (C)"),
       Stmt(36, "ylabel", "-", "Densidad de probabilidad"),
       Stmt(37, "title", "-", "Promedio de la temperatura en la Region Metropolitana en marzo"),
       Stmt(38, "legend", "-", "-"),
       Stmt(39, "show", "-", "-") >>

Program ==
    << Stmt(6, "read_csv", "2023", "url1"),
       Stmt(8, "label", "2023", "2023"),
       Stmt(13, "read_csv", "2020", "url2"),
       Stmt(15, "label", "2020", "2020"),
       Stmt(18, "to_datetime", "2023", "time"),
       Stmt(19, "to_datetime", "2020", "time"),
       Stmt(22, "filter", "2023", TargetMonth),
       Stmt(24, "filter", "2020", TargetMonth),
       Stmt(33, "kdeplot", "2023", "2023"),
       Stmt(34, "kdeplot", "2020", "2020"),
       Stmt(35, "xlabel", "-", "Temperatura (C)"),
       Stmt(36, "ylabel", "-", "Densidad de probabilidad"),
       Stmt(37, "title", "-", "Promedio de la temperatura en la Region Metropolitana en marzo"),
       Stmt(38, "legend", "-", "-"),
       Stmt(39, "show", "-", "-") >>

\* The statement the interpreter is at.
Cur == Program[pc]

At(op) == status = "running" /\ pc <= Len(Program) /\ Cur.op = op

Blocked(op) == status = "blocked" /\ Cur.op = op

----------------------------------------------------------------------------
(* What the two resources can serve.  A `time` cell is an ISO date string, *)
(* an empty cell (read_csv makes it NaN) or text that is no date; a `prom` *)
(* cell is a number or empty.                                              *)

\* The year in the path of url1 (line 5) and of url2 (line 12).
UrlYear(url) == IF url = "url1" THEN "2023" ELSE "2020"

YearChars(year) ==
    IF year = "2023" THEN <<"2", "0", "2", "3">> ELSE <<"2", "0", "2", "0">>

CsvRows(url) ==
    LET yyyy == YearChars(UrlYear(url)) IN
    { [time |-> Str(yyyy \o <<"-", "0", "3", "-", "0", "1">>), prom |-> Num(142)],
      [time |-> Str(yyyy \o <<"-", "0", "4", "-", "0", "1">>), prom |-> Num(180)],
      [time |-> Str(yyyy \o <<"-", "0", "3", "-", "1", "5">>), prom |-> Num(180)],
      [time |-> Str(yyyy \o <<"-", "0", "3", "-", "0", "1">>), prom |-> NaN],
      [time |-> NaN, prom |-> Num(142)],
      [time |-> Str(<<"m", "a", "r", "z", "o">>), prom |-> Num(142)] }

CsvTables(url) == UNION { [1..k -> CsvRows(url)] : k \in 0..MaxRows }

----------------------------------------------------------------------------
(* Control flow. *)

\* A statement completes: it is logged and the next one becomes current.
Advance ==
    /\ log' = Append(log, Cur)
    /\ pc' = pc + 1
    /\ status' = IF pc + 1 > Len(Program) THEN "done" ELSE "running"

\* Mutation: the exception is swallowed and the script goes on.
Abort_Continue(e) ==
    /\ err' = [type |-> e, line |-> Cur.line]
    /\ Advance

\* Mutation: the failed statement is run again.
Abort_Retry(e) ==
    /\ status' = "running"
    /\ err' = err
    /\ UNCHANGED <<pc, log>>

\* An exception nothing catches: the interpreter stops where it is.
Abort(e) ==
    /\ status' = "aborted"
    /\ err' = [type |-> e, line |-> Cur.line]
    /\ UNCHANGED <<pc, log>>

Init ==
    /\ pc = 1
    /\ status = "running"
    /\ df = [n \in Names |-> <<>>]
    /\ df_abril = [n \in Names |-> <<>>]
    /\ csv = [n \in Names |-> <<>>]
    /\ figure = [lines |-> <<>>, xlabel |-> "", ylabel |-> "", title |-> "",
                 legend |-> <<>>]
    /\ window = "none"
    /\ err = [type |-> "none", line |-> 0]
    /\ log = <<>>

\* Lines 6 and 13: read_csv sends the HTTP request and waits.
ReadCsvIssue ==
    /\ At("read_csv")
    /\ status' = "blocked"
    /\ UNCHANGED <<pc, df, df_abril, csv, figure, window, err, log>>

\* Lines 6-7 and 13-14: the request returns; the body is parsed into df_1 /
\* df_2 and wrapped as df_2023 / df_2020, or read_csv raises.
ReadCsvReturn ==
    /\ Blocked("read_csv")
    /\ \/ \E t \in CsvTables(Cur.arg) :
            /\ df' = [df EXCEPT ![Cur.tbl] = t]
            /\ csv' = [csv EXCEPT ![Cur.tbl] = t]
            /\ Advance
            /\ UNCHANGED <<df_abril, figure, window, err>>
       \/ \E e \in {"DataAccessError", "ParseError"} :
            /\ Abort(e)
            /\ UNCHANGED <<df, df_abril, csv, figure, window>>

\* Lines 8 and 15: df['etiqueta'] = '<literal>' sets the column on every row.
WithColumn(t, value) ==
    [i \in 1..Len(t) |->
        [time |-> t[i].time, prom |-> t[i].prom, etiqueta |-> value]]

AssignLabel ==
    /\ At("label")
    /\ df' = [df EXCEPT ![Cur.tbl] = WithColumn(df[Cur.tbl], Cur.arg)]
    /\ Advance
    /\ UNCHANGED <<df_abril, csv, figure, window, err>>

----------------------------------------------------------------------------
(* pd.to_datetime on a column of ISO date strings. *)

Digits == {"0", "1", "2", "3", "4", "5", "6", "7", "8", "9"}

DigitVal(c) ==
    CASE c = "0" -> 0 [] c = "1" -> 1 [] c = "2" -> 2 [] c = "3" -> 3
      [] c = "4" -> 4 [] c = "5" -> 5 [] c = "6" -> 6 [] c = "7" -> 7
      [] c = "8" -> 8 [] c = "9" -> 9

IsLeap(y) == (y % 4 = 0 /\ y % 100 # 0) \/ y % 400 = 0

DaysIn(y, m) ==
    IF m = 2 THEN (IF IsLeap(y) THEN 29 ELSE 28)
    ELSE IF m \in {4, 6, 9, 11} THEN 30 ELSE 31

YearOf(s) ==
    1000 * DigitVal(s[1]) + 100 * DigitVal(s[2]) + 10 * DigitVal(s[3]) + DigitVal(s[4])

MonthOf(s) == 10 * DigitVal(s[6]) + DigitVal(s[7])

DayOf(s) == 10 * DigitVal(s[9]) + DigitVal(s[10])

\* YYYY-MM-DD naming a day of the calendar.
Recognizable(s) ==
    /\ Len(s) = 10
    /\ s[5] = "-" /\ s[8] = "-"
    /\ \A i \in {1, 2, 3, 4, 6, 7, 9, 10} : s[i] \in Digits
    /\ MonthOf(s) \in 1..12
    /\ DayOf(s) \in 1..DaysIn(YearOf(s), MonthOf(s))

\* Mutation: the day and month fields read in the other order.
ParseDate_DayFirst(s) == Timestamp(YearOf(s), DayOf(s), MonthOf(s))

ParseDate(s) == Timestamp(YearOf(s), MonthOf(s), DayOf(s))

\* A missing value converts to NaT; it is not an error.
ConvertCell(c) == IF c.kind = "nan" THEN NaT ELSE ParseDate(c.s)

Convertible(c) == c.kind = "nan" \/ (c.kind = "str" /\ Recognizable(c.s))

\* Lines 18 and 19: the column is replaced by its conversion, or
\* to_datetime raises on the first value it cannot parse.
ToDatetime ==
    /\ At("to_datetime")
    /\ LET t == df[Cur.tbl] IN
       \/ /\ \A i \in 1..Len(t) : Convertible(t[i].time)
          /\ df' = [df EXCEPT ![Cur.tbl] =
                      [i \in 1..Len(t) |-> [t[i] EXCEPT !.time = ConvertCell(@)]]]
          /\ Advance
          /\ UNCHANGED <<df_abril, csv, figure, window, err>>
       \/ /\ \E i \in 1..Len(t) : ~Convertible(t[i].time)
          /\ Abort("ParseError")
          /\ UNCHANGED <<df, df_abril, csv, figure, window>>

----------------------------------------------------------------------------
(* df[df['time'].dt.month == m]: a boolean mask, then boolean indexing. *)

\* Series.dt.month: the month number, NaN where the timestamp is NaT.
dt_month(c) == IF c.kind = "ts" THEN Num(c.month) ELSE NaN

\* Mutation: months counted from zero.
EqScalar_ZeroBased(c, m) == c.kind = "num" /\ c.v - 1 = m

\* Element-wise ==; NaN equals nothing.
EqScalar(c, m) == c.kind = "num" /\ c.v = m

Mask(t, m) == [i \in 1..Len(t) |-> EqScalar(dt_month(t[i].time), m)]

RECURSIVE BoolIndex_Shifted(_, _)
\* Mutation: the mask applied one row late.
BoolIndex_Shifted(t, mask) ==
    IF Len(t) < 2 THEN <<>>
    ELSE (IF mask[1] THEN <<t[2]>> ELSE <<>>)
             \o BoolIndex_Shifted(Tail(t), Tail(mask))

RECURSIVE BoolIndex(_, _)
BoolIndex(t, mask) ==
    IF Len(t) = 0 THEN <<>>
    ELSE (IF mask[1] THEN <<t[1]>> ELSE <<>>) \o BoolIndex(Tail(t), Tail(mask))

filterByMonth(t, m) == BoolIndex(t, Mask(t, m))

\* Mutation: the selection also replaces the source table.
FilterByMonth_InPlace ==
    /\ At("filter")
    /\ df_abril' = [df_abril EXCEPT ![Cur.tbl] = filterByMonth(df[Cur.tbl], Cur.arg)]
    /\ df' = [df EXCEPT ![Cur.tbl] = filterByMonth(df[Cur.tbl], Cur.arg)]
    /\ Advance
    /\ UNCHANGED <<csv, figure, window, err>>

\* Lines 22 and 24: the selection is bound to a new name.
FilterByMonth ==
    /\ At("filter")
    /\ df_abril' = [df_abril EXCEPT ![Cur.tbl] = filterByMonth(df[Cur.tbl], Cur.arg)]
    /\ Advance
    /\ UNCHANGED <<df, csv, figure, window, err>>

----------------------------------------------------------------------------
(* sns.kdeplot(data=t, x='prom', label=l): one density curve on the        *)
(* current axes.  A curve is recorded by its label, the table it was drawn *)
(* from and the sample it estimates.                                       *)

RECURSIVE Observations(_)
\* The plotted variable with missing values dropped.
Observations(t) ==
    IF Len(t) = 0 THEN <<>>
    ELSE (IF t[1].prom.kind = "num" THEN <<t[1].prom.v>> ELSE <<>>)
             \o Observations(Tail(t))

\* Mutation: no degenerate-sample test at all.
Singular_Never(obs) == FALSE

\* A sample no bandwidth can be estimated from: fewer than two values, or
\* zero variance.
Singular(obs) ==
    \/ Len(obs) < 2
    \/ \A i, j \in 1..Len(obs) : obs[i] = obs[j]

\* Lines 33 and 34.  On a singular sample the plotting library either warns
\* and draws nothing, or (releases without that test) lets the estimator's
\* exception through; the script pins no release.
KdePlot ==
    /\ At("kdeplot")
    /\ LET obs == Observations(df_abril[Cur.tbl]) IN
       \/ /\ ~Singular(obs)
          /\ figure' = [figure EXCEPT !.lines =
                          Append(@, [label |-> Cur.arg, data |-> Cur.tbl, sample |-> obs])]
          /\ Advance
          /\ UNCHANGED <<df, df_abril, csv, window, err>>
       \/ /\ Singular(obs)
          /\ Advance
          /\ UNCHANGED <<df, df_abril, csv, figure, window, err>>
       \/ /\ Singular(obs)
          /\ Abort("RenderError")
          /\ UNCHANGED <<df, df_abril, csv, figure, window>>

\* Lines 35-37.
XLabel ==
    /\ At("xlabel")
    /\ figure' = [figure EXCEPT !.xlabel = Cur.arg]
    /\ Advance
    /\ UNCHANGED <<df, df_abril, csv, window, err>>

YLabel ==
    /\ At("ylabel")
    /\ figure' = [figure EXCEPT !.ylabel = Cur.arg]
    /\ Advance
    /\ UNCHANGED <<df, df_abril, csv, window, err>>

Title ==
    /\ At("title")
    /\ figure' = [figure EXCEPT !.title = Cur.arg]
    /\ Advance
    /\ UNCHANGED <<df, df_abril, csv, window, err>>

\* Mutation: only the first handle makes it into the legend.
LegendEntries_FirstOnly(lines) ==
    IF Len(lines) = 0 THEN <<>> ELSE <<lines[1].label>>

\* The labels of the labelled artists, in drawing order.
LegendEntries(lines) == [i \in 1..Len(lines) |-> lines[i].label]

\* Line 38.  With no labelled artist the legend is empty (a warning only).
Legend ==
    /\ At("legend")
    /\ figure' = [figure EXCEPT !.legend = LegendEntries(figure.lines)]
    /\ Advance
    /\ UNCHANGED <<df, df_abril, csv, window, err>>

\* Line 39: plt.show() opens the window and blocks in the GUI main loop.
Show ==
    /\ At("show")
    /\ window' = "open"
    /\ status' = "blocked"
    /\ UNCHANGED <<pc, df, df_abril, csv, figure, err, log>>

\* The user closes the window; plt.show() returns and the script ends.
CloseWindow ==
    /\ Blocked("show")
    /\ window' = "closed"
    /\ Advance
    /\ UNCHANGED <<df, df_abril, csv, figure, err>>

----------------------------------------------------------------------------

\* Steps the interpreter takes on its own.
ProgramStep ==
    \/ ReadCsvIssue
    \/ AssignLabel
    \/ ToDatetime
    \/ FilterByMonth
    \/ KdePlot
    \/ XLabel
    \/ YLabel
    \/ Title
    \/ Legend
    \/ Show

Next == ProgramStep \/ ReadCsvReturn \/ CloseWindow

Spec == Init /\ [][Next]_vars

\* Every fetch returns and the user closes the window.
FairSpec ==
    /\ Spec
    /\ WF_vars(ProgramStep)
    /\ WF_vars(ReadCsvReturn)
    /\ WF_vars(CloseWindow)

----------------------------------------------------------------------------
(* Shorthands used by the properties. *)

df_2023 == df["2023"]
df_2020 == df["2020"]
df_abril_2023 == df_abril["2023"]
df_abril_2020 == df_abril["2020"]

\* Statement (op, tbl) has completed.
Ran(op, tbl) == \E i \in 1..Len(log) : log[i].op = op /\ log[i].tbl = tbl

\* How many times it has completed.
Times(op, tbl) == Cardinality({i \in 1..Len(log) : log[i].op = op /\ log[i].tbl = tbl})
DigitChar(n) ==
    CASE n = 0 -> "0" [] n = 1 -> "1" [] n = 2 -> "2" [] n = 3 -> "3"
      [] n = 4 -> "4" [] n = 5 -> "5" [] n = 6 -> "6" [] n = 7 -> "7"
      [] n = 8 -> "8" [] n = 9 -> "9"

\* The ISO text of a timestamp (its date part).
FormatDate(ts) ==
    << DigitChar(ts.year \div 1000), DigitChar((ts.year \div 100) % 10),
       DigitChar((ts.year \div 10) % 10), DigitChar(ts.year % 10), "-",
       DigitChar(ts.month \div 10), DigitChar(ts.month % 10), "-",
       DigitChar(ts.day \div 10), DigitChar(ts.day % 10) >>

RECURSIVE IsSubsequence(_, _)
\* r can be obtained from t by deleting rows.
IsSubsequence(r, t) ==
    IF Len(r) = 0 THEN TRUE
    ELSE IF Len(t) = 0 THEN FALSE
    ELSE IF r[1] = t[1] THEN IsSubsequence(Tail(r), Tail(t))
    ELSE IsSubsequence(r, Tail(t))

InMonth(row, m) == row.time.kind = "ts" /\ row.time.month = m

MatchCount(t, m) == Cardinality({i \in 1..Len(t) : InMonth(t[i], m)})

\* r is exactly the rows of t that fall in month m, in t's order.
ExactlyMonth(r, t, m) ==
    /\ IsSubsequence(r, t)
    /\ \A i \in 1..Len(r) : InMonth(r[i], m)
    /\ Len(r) = MatchCount(t, m)

ExampleCsv ==
    << [time |-> Str(<<"2", "0", "2", "0", "-", "0", "3", "-", "0", "1">>), prom |-> Num(142)],
       [time |-> Str(<<"2", "0", "2", "0", "-", "0", "4", "-", "0", "1">>), prom |-> Num(180)] >>

NonSingular(n) == ~Singular(Observations(df_abril[n]))

Errors == {"DataAccessError", "ParseError", "RenderError"}

InitialFigure ==
    [lines |-> <<>>, xlabel |-> "", ylabel |-> "", title |-> "", legend |-> <<>>]

----------------------------------------------------------------------------
(* C1.  On a table whose `time` column has been normalized, the month     *)
(* selection never raises and yields exactly the rows with time.month = m, *)
(* in their original order: the table the script binds for month 3, and,   *)
(* on the table the selection is about to be applied to, the selection for *)
(* every month m (the empty table when none matches).  For the rows        *)
(* 2020-03-01/14.2, 2020-04-01/18.0 and m = 3 the result is the single row *)
(* 2020-03-01/14.2.                                                        *)
C1_FilterExact ==
    /\ ~(status = "aborted" /\ Cur.op = "filter")
    /\ \A n \in Names :
        /\ (At("filter") /\ Cur.tbl = n) =>
             \A m \in 1..12 :
                /\ ExactlyMonth(filterByMonth(df[n], m), df[n], m)
                /\ MatchCount(df[n], m) = 0 => filterByMonth(df[n], m) = <<>>
        /\ Ran("filter", n) => ExactlyMonth(df_abril[n], df[n], TargetMonth)
    /\ (Ran("filter", "2020") /\ csv["2020"] = ExampleCsv) =>
          df_abril_2020 = << [time |-> Timestamp(2020, 3, 1), prom |-> Num(142),
                              etiqueta |-> "2020"] >>

C1_Witness ==
    /\ Ran("filter", "2020")
    /\ csv["2020"] = ExampleCsv
    /\ Len(df_abril_2020) = 1
    /\ Len(df_2020) = 2

(* C2.  Filtering by the same month twice gives the same table as          *)
(* filtering once, same rows in the same order: for the table the script   *)
(* has selected for month 3, and for every month m on the table the        *)
(* selection is about to be applied to.                                    *)
C2_Idempotent ==
    \A n \in Names :
        /\ Ran("filter", n) => filterByMonth(df_abril[n], TargetMonth) = df_abril[n]
        /\ (At("filter") /\ Cur.tbl = n) =>
             \A m \in 1..12 :
                filterByMonth(filterByMonth(df[n], m), m) = filterByMonth(df[n], m)

C2_Witness ==
    /\ Ran("filter", "2023")
    /\ Len(df_abril_2023) >= 1
    /\ Len(df_2023) > Len(df_abril_2023)

(* C3 as stated.  render fails whenever a table has fewer than 2 points:   *)
(* kdeplot never completes on such a table, and no chart is displayed when *)
(* both filtered tables are empty.                                         *)
C3_FailsBelowTwoPoints ==
    /\ \A n \in Names : Ran("kdeplot", n) => Len(df_abril[n]) >= 2
    /\ window # "none" => \E n \in Names : df_abril[n] # <<>>

(* C3, amended.  No density curve is drawn for a table with fewer than 2   *)
(* non-missing prom values; a RenderError comes only out of a kdeplot call *)
(* on such a degenerate sample and is not guaranteed: when the call warns  *)
(* and skips, the chart is still displayed, with no curve and an empty     *)
(* legend when both filtered tables are empty.                             *)
C3_NoCurveBelowTwoPoints ==
    /\ \A n \in Names :
          (Ran("filter", n) /\ Len(Observations(df_abril[n])) < 2) =>
              \A k \in 1..Len(figure.lines) : figure.lines[k].data # n
    /\ err.type = "RenderError" =>
          /\ Cur.op = "kdeplot"
          /\ Singular(Observations(df_abril[Cur.tbl]))
    /\ (window # "none" /\ \A n \in Names : df_abril[n] = <<>>) =>
          /\ figure.lines = <<>>
          /\ figure.legend = <<>>

C3_Witness ==
    /\ window = "open"
    /\ df_abril_2023 = <<>>
    /\ df_abril_2020 = <<>>
    /\ Len(df_2023) > 0

(* C4 as stated.  With at least 2 rows in each filtered table, the figure  *)
(* render displays has exactly two labelled curves and a legend with both  *)
(* labels.  (The claim also says render does not raise; the part about the *)
(* displayed figure is already false.)                                     *)
C4_TwoRowsTwoCurves ==
    (\A n \in Names : Ran("filter", n) /\ Len(df_abril[n]) >= 2) =>
        (window # "none" =>
              /\ Len(figure.lines) = 2
              /\ {figure.legend[k] : k \in 1..Len(figure.legend)} = Names)

(* C4, amended.  With at least 2 non-missing prom values that are not all  *)
(* equal in each filtered table, render does not raise and the displayed   *)
(* figure has exactly two curves, one per table and labelled "2023" and    *)
(* "2020", and a legend with exactly those two labels.                     *)
C4_TwoCurves ==
    (\A n \in Names : Ran("filter", n) /\ NonSingular(n)) =>
        /\ status # "aborted"
        /\ window # "none" =>
              /\ Len(figure.lines) = 2
              /\ {figure.lines[k].data : k \in 1..Len(figure.lines)} = Names
              /\ {figure.lines[k].label : k \in 1..Len(figure.lines)} = Names
              /\ Len(figure.legend) = 2
              /\ {figure.legend[k] : k \in 1..Len(figure.legend)} = Names

C4_Witness ==
    /\ window = "open"
    /\ \A n \in Names : NonSingular(n)
    /\ Len(figure.lines) = 2

(* C5.  No failure is caught: once a statement raises, the run is aborted  *)
(* with that error at that statement, exactly the statements before it     *)
(* have run (each once), nothing runs afterwards, no window was opened,    *)
(* and after a fetch or parse failure nothing was drawn or selected.       *)
C5_NoRecovery ==
    /\ [](/\ err.type # "none" => status = "aborted"
          /\ \A k \in 1..Len(log) : log[k] = Program[k]
          /\ status = "aborted" =>
               /\ err.type \in Errors
               /\ err.line = Cur.line
               /\ Len(log) = pc - 1
               /\ ~Ran(Cur.op, Cur.tbl)
               /\ window = "none"
               /\ Cur.op \in {"read_csv", "to_datetime"} =>
                     /\ figure = InitialFigure
                     /\ \A n \in Names : df_abril[n] = <<>>)
    /\ [][status # "aborted"]_vars

C5_Witness ==
    /\ status = "aborted"
    /\ err.type = "ParseError"
    /\ Cur.op = "to_datetime"
    /\ Cur.tbl = "2020"

(* C6 as stated.  After normalization every row's `time` is a structured   *)
(* calendar timestamp.                                                     *)
C6_EveryTimeIsTimestamp ==
    \A n \in Names :
        Ran("to_datetime", n) =>
            \A i \in 1..Len(df[n]) : df[n][i].time.kind = "ts"

ValidTimestamp(c) ==
    /\ c.kind = "ts"
    /\ c.month \in 1..12
    /\ c.day \in 1..DaysIn(c.year, c.month)

(* C6, amended.  After normalization the table has the same rows in the    *)
(* same order; every `time` that was a string is the calendar timestamp    *)
(* that string denotes, and every missing `time` is NaT (no error).  The   *)
(* normalization fails, with ParseError, exactly on a non-missing value    *)
(* that is no date string.  From then on no row carries an unparsed        *)
(* `time`, and every row the month filter selects carries a timestamp.     *)
C6_Normalized ==
    /\ \A n \in Names :
        /\ Ran("to_datetime", n) =>
            /\ Len(df[n]) = Len(csv[n])
            /\ \A i \in 1..Len(df[n]) :
                /\ df[n][i].prom = csv[n][i].prom
                /\ csv[n][i].time.kind = "str" =>
                      /\ ValidTimestamp(df[n][i].time)
                      /\ FormatDate(df[n][i].time) = csv[n][i].time.s
                /\ csv[n][i].time.kind = "nan" => df[n][i].time = NaT
        /\ \A i \in 1..Len(df_abril[n]) : ValidTimestamp(df_abril[n][i].time)
    /\ (status = "aborted" /\ Cur.op = "to_datetime") =>
            /\ err.type = "ParseError"
            /\ \E i \in 1..Len(csv[Cur.tbl]) :
                  /\ csv[Cur.tbl][i].time.kind = "str"
                  /\ ~Recognizable(csv[Cur.tbl][i].time.s)

C6_Witness ==
    /\ Ran("to_datetime", "2023")
    /\ Len(df_2023) = 2
    /\ df_2023[1].time = NaT
    /\ df_2023[2].time = Timestamp(2023, 3, 15)

Terminated == status \in {"done", "aborted"}

(* C8.  When every fetch returns and the user closes the chart, the run    *)
(* terminates: normally, after the chart was displayed and closed, or      *)
(* abnormally, on an unhandled error.  The only places the script waits    *)
(* are a fetch and the open chart.                                         *)
C8_Terminates ==
    /\ <>Terminated
    /\ [](status = "done" =>
             /\ window = "closed"
             /\ err.type = "none"
             /\ Ran("show", "-")
             /\ pc = Len(Program) + 1)
    /\ [](status = "aborted" => err.type \in Errors /\ window = "none")
    /\ [](status = "blocked" => Cur.op \in {"read_csv", "show"})
    /\ [](status = "running" => ENABLED ProgramStep)

C8_Witness ==
    /\ status = "done"
    /\ window = "closed"
    /\ Len(figure.lines) = 1

(* C9.  Each table is constructed once, labelled once and normalized once, *)
(* and never changes after its normalization: the month selection and the  *)
(* plotting leave both source tables exactly as they were.                 *)
C9_Lifecycle ==
    /\ [](\A n \in Names :
            /\ \A op \in {"read_csv", "label", "to_datetime"} : Times(op, n) <= 1
            /\ Ran("filter", n) =>
                  \A op \in {"read_csv", "label", "to_datetime"} : Times(op, n) = 1)
    /\ [][\A n \in Names : Ran("to_datetime", n) => df'[n] = df[n]]_vars
    /\ [][Ran("filter", "2023") => df' = df]_vars

C9_Witness ==
    /\ status = "done"
    /\ Len(df_2023) > Len(df_abril_2023)
    /\ Len(df_2020) > Len(df_abril_2020)

(* C10 as stated.  A table's `etiqueta` is assigned only after its `time`  *)
(* column has been normalized.                                             *)
C10_LabelAfterNormalize ==
    \A n \in Names : Ran("label", n) => Ran("to_datetime", n)

(* C10, amended.  For each table the order is: construction by fetch and   *)
(* parse, then label assignment, then timestamp normalization, then        *)
(* filtering, then plotting; the `time` column is normalized only after    *)
(* `etiqueta` has been assigned.                                           *)
C10_LabelBeforeNormalize ==
    \A n \in Names :
        /\ Ran("label", n) => Ran("read_csv", n)
        /\ Ran("to_datetime", n) => Ran("label", n)
        /\ Ran("filter", n) => Ran("to_datetime", n)
        /\ Ran("kdeplot", n) => Ran("filter", n)
        /\ \A i, j \in 1..Len(log) :
              (log[i].op = "label" /\ log[j].op = "to_datetime"
                  /\ log[i].tbl = n /\ log[j].tbl = n) => i < j
        /\ \A i \in 1..Len(df[n]) :
              df[n][i].time.kind \in {"ts", "NaT"} => "etiqueta" \in DOMAIN df[n][i]

C10_Witness ==
    /\ Ran("to_datetime", "2020")
    /\ ~Ran("filter", "2023")
    /\ Len(df_2020) = 2
====
